---- MODULE Spec2Model ----
(***************************************************************************)
(* A model of the Cleanvoice client of src/audio_processor.py: the request *)
(* builder operations, the four remote operations of the API client, the   *)
(* upload handshake and the completion poller.  A caller issues one call   *)
(* at a time (pc = "idle" -> ... -> "returned"); the remote service, the   *)
(* local file system and the clock are the nondeterministic environment.   *)
(***************************************************************************)
EXTENDS Integers, Sequences, FiniteSets, TLC

\* ------------------------------------------------------------------ bounds

\* Largest number of keys in a caller's additional-configuration mapping.
MaxOverrides == 2
\* Loudness arguments range over -MaxLufs..MaxLufs (plus the code's defaults).
MaxLufs == 1
\* Longest list of file references handed to an operation.
MaxFiles == 2
\* Poll interval, deadline, request latency and oversleep, in seconds.
MaxPollSec == 5
MaxWaitSec == 12
MaxLatencySec == 1
MaxOversleepSec == 1

\* ------------------------------------------------------- values of the model

\* A mapping key, or response field, that is not there.
Absent == "<absent>"

\* Python's None for an additional_config argument that was not given.
None == [None |-> TRUE]

\* The empty mapping {}.
EmptyConfig == <<>>

Urls == {"url_a", "url_b"}

\* str | List[str]: the files argument of an operation.
FileArgs ==
    [isList : {FALSE}, str : Urls, list : {<<>>}]
      \cup [isList : {TRUE}, str : {Absent},
            list : UNION {[1..n -> Urls] : n \in 0..MaxFiles}]

BoolKeys ==
    {"long_silences", "stutters", "fillers", "mouth_sounds", "hesitations",
     "muted", "remove_noise", "keep_music", "breath", "normalize", "autoeq",
     "sound_studio", "transcription", "summarize", "social_content", "merge",
     "export_timestamps"}

LufsKeys == {"mute_lufs", "target_lufs"}

\* A key no operation sets: it can only come from the caller.
ExtraKeys == {"custom_key"}

\* Format strings a caller may pass: the five the code accepts and some others.
FormatArgs == {"auto", "mp3", "wav", "flac", "m4a", "ogg", "MP3", ""}

LufsArgs == ((0 - MaxLufs)..MaxLufs) \cup {-80, -16}

\* The values a caller may give a key in additional_config.
KeyValues(k) ==
    IF k \in BoolKeys THEN BOOLEAN
    ELSE IF k \in LufsKeys THEN {-16, 0}
    ELSE IF k = "export_format" THEN {"wav", "ogg"}
    ELSE {"custom_value"}

\* m with key k set to v: one more entry of a mapping.
Extend(m, k, v) ==
    [x \in DOMAIN m \cup {k} |-> IF x = k THEN v ELSE m[x]]

\* Every mapping whose keys are exactly K, each key with a value of its kind.
RECURSIVE MapsOver(_)
MapsOver(K) ==
    IF K = {} THEN {EmptyConfig}
    ELSE LET k == CHOOSE x \in K : TRUE
         IN  {Extend(m, k, v) : m \in MapsOver(K \ {k}), v \in KeyValues(k)}

\* The additional_config arguments tried for an operation whose fixed keys
\* are `fixed`: None, and every mapping of at most MaxOverrides keys drawn
\* from the fixed keys, export_format and a key of the caller's own.
AdditionalConfigs(fixed) ==
    LET keys == fixed \cup {"export_format"} \cup ExtraKeys
        keySets == {K \in SUBSET keys : Cardinality(K) <= MaxOverrides}
    IN  {None} \cup UNION {MapsOver(K) : K \in keySets}

\* ------------------------------------------------------ the remote service

JobIds == {"job_1", "job_2"}

SignedUrls == {"signed_1", "signed_2"}

ServerMessages == {"quota exceeded"}

\* The statuses the service reports for a job; only SUCCESS and FAILURE are
\* terminal.
JobStatuses == {"PENDING", "STARTED", "SUCCESS", "FAILURE"}

\* A decoded JSON body; a field the body does not have is Absent.
Json(message, id, status, signedUrl) ==
    [message |-> message, id |-> id, status |-> status, signedUrl |-> signedUrl]

NoJson == Json(Absent, Absent, Absent, Absent)

\* An answer with a status code and a body.
Response(code, json) == [code |-> code, json |-> json, error |-> Absent]

\* The requests library raised before any response arrived: code 0 stands
\* for the exception's response attribute being None.  The library's text for
\* such a failure names the URL ("Max retries exceeded with url: ...") or
\* does not ("Connection aborted.").
NoResponses ==
    [code : {0}, json : {NoJson},
     error : {"Max retries exceeded", "Connection aborted"}]

\* An error response, with or without a message in its body.
ErrorResponses ==
    {Response(c, Json(m, Absent, Absent, Absent)) :
        c \in {404, 500}, m \in ServerMessages \cup {Absent}}

\* What POST /edits may answer: the created job, a redirect-class answer the
\* library hands back as it is, an error, or nothing.
CreateJobResponses ==
    {Response(c, Json(Absent, id, "PENDING", Absent)) :
        c \in {200, 304}, id \in JobIds}
      \cup ErrorResponses \cup NoResponses

\* The answers tried for the POST /edits of a builder operation: one of each
\* kind (a direct call of process_audio tries them all).
BuilderResponses ==
    {r \in CreateJobResponses :
        /\ r.code \in {0, 200, 404}
        /\ r.json.id \in {Absent, "job_1"}
        /\ r.code = 404 => r.json.message # Absent
        /\ r.error # "Connection aborted"}

\* What GET /edits/{id} may answer for job `id`.
StatusResponses(id) ==
    {Response(200, Json(Absent, id, s, Absent)) : s \in JobStatuses}
      \cup ErrorResponses \cup NoResponses

\* What DELETE /edits/{id} may answer.
DeleteResponses(id) ==
    {Response(200, Json("deleted", id, Absent, Absent))}
      \cup ErrorResponses \cup NoResponses

\* ------------------------------------------------------------------- state

VARIABLES
    pc,        \* where the caller's current call is: "idle", "returned", or a
               \* position inside wait_for_completion
    call,      \* the call in progress or just returned, with its arguments
    sent,      \* the HTTP requests this call has issued, in order
    recv,      \* the service's answers to them, in order (the poller keeps
               \* the latest answer only, and counts the rest in poll)
    outcome,   \* what the call returned or raised
    poll,      \* wait_for_completion's arguments, clock and counters
    driver     \* the interactive driver's session and current command

vars == <<pc, call, sent, recv, outcome, poll, driver>>

NoFiles == [isList |-> FALSE, str |-> Absent, list |-> <<>>]

\* A call's record; a field an operation does not take keeps its filler.
Call(op, files, additional_config, lufs, fmt, flag) ==
    [op |-> op, files |-> files, additional_config |-> additional_config,
     lufs |-> lufs, fmt |-> fmt, flag |-> flag, id |-> Absent,
     filename |-> Absent, readable |-> FALSE]

NoCall == Call("none", NoFiles, None, 0, Absent, FALSE)

\* A request as it leaves the client.
Request(method, endpoint, target, files, config) ==
    [method |-> method, endpoint |-> endpoint, target |-> target,
     files |-> files, config |-> config]

\* The text after the colon of an error message, and the URL it names.
Detail(text, url) == [text |-> text, url |-> url]

NoUrl == <<>>

NoDetail == Detail(Absent, NoUrl)

NoOutcome ==
    [kind |-> "none", exc |-> Absent, msg |-> Absent, detail |-> NoDetail,
     json |-> NoJson, url |-> Absent]

\* return <json>
ReturnJson(json) ==
    [kind |-> "return", exc |-> Absent, msg |-> Absent, detail |-> NoDetail,
     json |-> json, url |-> Absent]

\* return <url>
ReturnUrl(url) ==
    [kind |-> "return", exc |-> Absent, msg |-> Absent, detail |-> NoDetail,
     json |-> NoJson, url |-> url]

\* raise exc(f'{msg}: {detail}'), or raise exc(msg) when detail is NoDetail.
Raise(exc, msg, detail) ==
    [kind |-> "raise", exc |-> exc, msg |-> msg, detail |-> detail,
     json |-> NoJson, url |-> Absent]

\* wait_for_completion's arguments and local start_time, the clock (in
\* milliseconds), and what the loop has done so far: the status queries it
\* issued and when the last one left, the answers that were neither SUCCESS
\* nor FAILURE, the sleeps, and whether a sleep followed the last answer.
NoPoll ==
    [poll_interval |-> 0, max_wait_time |-> 0, start_time |-> 0, now |-> 0,
     queries |-> 0, lastQueryAt |-> 0, answers |-> 0, nonTerminal |-> 0,
     sleeps |-> 0, sleptAfterAnswer |-> FALSE]

\* The interactive driver: the command being handled, the audio file found
\* for it, the signed URL upload_file returned, the id of the job created,
\* the last message printed, the step of the command that failed, and how
\* the session ended.
NoDriver ==
    [command |-> Absent, filename |-> Absent, signed_url |-> Absent,
     job_id |-> Absent, printed |-> Absent, failed |-> "none", ended |-> "no"]

Init ==
    /\ pc = "idle"
    /\ call = NoCall
    /\ sent = <<>>
    /\ recv = <<>>
    /\ outcome = NoOutcome
    /\ poll = NoPoll
    /\ driver = NoDriver

\* ------------------------------------------------ the requests library's part

\* response.raise_for_status() raises HTTPError for 4xx and 5xx only.
RaisesForStatus(resp) == 400 <= resp.code /\ resp.code < 600

\* A request raised RequestException: there was no response, or
\* raise_for_status() raised.
RequestFailed(resp) == resp.code = 0 \/ RaisesForStatus(resp)

\* The truth value of e.response in `... if e.response else str(e)`: None is
\* false, and a Response is true exactly when it is ok, that is when
\* raise_for_status() does not raise.
ResponseTruthy(resp) == resp.code # 0 /\ ~RaisesForStatus(resp)

\* The URL a request goes to.
UrlOf(req) == <<req.endpoint, req.target>>

\* str(e): the library's own description of the failure of the request to
\* `url`.  HTTPError reads "<code> Client Error: <reason> for url: <url>" or
\* "<code> Server Error: ...".
StrE(resp, url) ==
    IF resp.code = 0
    THEN Detail(resp.error,
                IF resp.error = "Max retries exceeded" THEN url ELSE NoUrl)
    ELSE IF resp.code < 500 THEN Detail("Client Error", url)
    ELSE Detail("Server Error", url)

\* e.response.json().get('message', str(e)) if e.response else str(e)
ErrorMsg(resp, url) ==
    IF ResponseTruthy(resp)
    THEN IF resp.json.message # Absent THEN Detail(resp.json.message, NoUrl)
         ELSE StrE(resp, url)
    ELSE StrE(resp, url)

\* try: ... raise_for_status(); return response.json()
\* except RequestException as e: raise Exception(f'{prefix}: {error_msg}')
Translate(prefix, req, resp) ==
    IF RequestFailed(resp)
    THEN Raise("Exception", prefix, ErrorMsg(resp, UrlOf(req)))
    ELSE ReturnJson(resp.json)

\* ---------------------------------------------------------- request builder

\* if additional_config is None: additional_config = {}
OrEmpty(additional_config) ==
    IF additional_config = None THEN EmptyConfig ELSE additional_config

\* MergeConfig with the two mappings spread in the wrong order.
MergeConfig_defaults_last(defaults, additional_config) ==
    [k \in DOMAIN defaults \cup DOMAIN additional_config |->
        IF k \in DOMAIN defaults THEN defaults[k]
        ELSE additional_config[k]]

\* {<defaults>, **additional_config}: the defaults first, the caller's
\* mapping on top.
MergeConfig(defaults, additional_config) ==
    [k \in DOMAIN defaults \cup DOMAIN additional_config |->
        IF k \in DOMAIN additional_config THEN additional_config[k]
        ELSE defaults[k]]

\* files if isinstance(files, list) else [files]
file_array(files) == IF files.isList THEN files.list ELSE <<files.str>>

\* process_audio(files, config): POST /edits and the translation of its answer.
process_audio(c, files, config, resp) ==
    LET post == Request("POST", "/edits", Absent, file_array(files),
                        OrEmpty(config))
    IN  /\ pc' = "returned"
        /\ call' = c
        /\ sent' = <<post>>
        /\ recv' = <<resp>>
        /\ outcome' = Translate("Failed to process audio", post, resp)
        /\ UNCHANGED <<poll, driver>>

\* RaiseInvalid with the check made after the request has left.
RaiseInvalid_after_post(c, msg) ==
    /\ pc' = "returned"
    /\ call' = c
    /\ sent' = <<Request("POST", "/edits", Absent, file_array(c.files),
                         EmptyConfig)>>
    /\ recv' = <<>>
    /\ outcome' = Raise("ValueError", msg, NoDetail)
    /\ UNCHANGED <<poll, driver>>

\* A builder operation that raises before it builds anything.
RaiseInvalid(c, msg) ==
    /\ pc' = "returned"
    /\ call' = c
    /\ sent' = <<>>
    /\ recv' = <<>>
    /\ outcome' = Raise("ValueError", msg, NoDetail)
    /\ UNCHANGED <<poll, driver>>

\* The calls of one operation: every files argument, every additional_config
\* over the operation's keys, every answer of the service.
Inputs(defaults) ==
    [files : FileArgs, additional_config : AdditionalConfigs(DOMAIN defaults),
     resp : BuilderResponses]

\* The tail every builder operation shares:
\*   if additional_config is None: additional_config = {}
\*   config = {<defaults>, **additional_config}
\*   return self.process_audio(files, config)
Build(op, defaults, lufs, fmt, flag) ==
    \E in \in Inputs(defaults) :
        process_audio(Call(op, in.files, in.additional_config, lufs, fmt, flag),
                      in.files,
                      MergeConfig(defaults, OrEmpty(in.additional_config)),
                      in.resp)

\* The head of a validating operation when its check fails: raise ValueError.
Reject(op, defaults, lufs, fmt, flag, msg) ==
    \E in \in Inputs(defaults) :
        RaiseInvalid(Call(op, in.files, in.additional_config, lufs, fmt, flag),
                     msg)

remove_silences ==
    /\ pc = "idle"
    /\ Build("remove_silences", [long_silences |-> TRUE], 0, Absent, FALSE)

remove_stutters ==
    /\ pc = "idle"
    /\ Build("remove_stutters", [stutters |-> TRUE], 0, Absent, FALSE)

remove_fillers ==
    /\ pc = "idle"
    /\ Build("remove_fillers", [fillers |-> TRUE], 0, Absent, FALSE)

remove_mouth_sounds ==
    /\ pc = "idle"
    /\ Build("remove_mouth_sounds", [mouth_sounds |-> TRUE], 0, Absent, FALSE)

remove_hesitations ==
    /\ pc = "idle"
    /\ Build("remove_hesitations", [hesitations |-> TRUE], 0, Absent, FALSE)

mute_segments ==
    /\ pc = "idle"
    /\ \E mute_lufs \in LufsArgs :
         Build("mute_segments", [muted |-> TRUE, mute_lufs |-> mute_lufs],
               mute_lufs, Absent, FALSE)

denoise_audio ==
    /\ pc = "idle"
    /\ \E keep_music \in BOOLEAN :
         Build("denoise_audio",
               [remove_noise |-> TRUE, keep_music |-> keep_music],
               0, Absent, keep_music)

preserve_music ==
    /\ pc = "idle"
    /\ Build("preserve_music", [keep_music |-> TRUE], 0, Absent, FALSE)

reduce_breath_sounds ==
    /\ pc = "idle"
    /\ \E mute_lufs \in LufsArgs :
         Build("reduce_breath_sounds",
               [breath |-> TRUE, mute_lufs |-> mute_lufs],
               mute_lufs, Absent, FALSE)

normalize_audio ==
    /\ pc = "idle"
    /\ \E target_lufs \in LufsArgs :
         Build("normalize_audio",
               [normalize |-> TRUE, target_lufs |-> target_lufs],
               target_lufs, Absent, FALSE)

apply_autoeq ==
    /\ pc = "idle"
    /\ Build("apply_autoeq", [autoeq |-> TRUE], 0, Absent, FALSE)

enhance_with_ai ==
    /\ pc = "idle"
    /\ Build("enhance_with_ai", [sound_studio |-> TRUE], 0, Absent, FALSE)

\* if mute_lufs > 0: raise ValueError(...)
mute_lufs_rejected(mute_lufs) == mute_lufs > 0

set_mute_lufs ==
    /\ pc = "idle"
    /\ \E mute_lufs \in LufsArgs :
         IF mute_lufs_rejected(mute_lufs)
         THEN Reject("set_mute_lufs", [mute_lufs |-> mute_lufs],
                     mute_lufs, Absent, FALSE,
                     "mute_lufs must be a negative integer")
         ELSE Build("set_mute_lufs", [mute_lufs |-> mute_lufs],
                    mute_lufs, Absent, FALSE)

\* if target_lufs >= 0: raise ValueError(...)
target_lufs_rejected(target_lufs) == target_lufs >= 0

set_target_lufs ==
    /\ pc = "idle"
    /\ \E target_lufs \in LufsArgs :
         IF target_lufs_rejected(target_lufs)
         THEN Reject("set_target_lufs", [target_lufs |-> target_lufs],
                     target_lufs, Absent, FALSE,
                     "target_lufs must be less than 0")
         ELSE Build("set_target_lufs", [target_lufs |-> target_lufs],
                    target_lufs, Absent, FALSE)

valid_formats == {"auto", "mp3", "wav", "flac", "m4a"}

\* format_rejected with "flac" and "m4a" left out of the list.
format_rejected_short_list(format) == format \notin {"auto", "mp3", "wav"}

\* if format not in valid_formats: raise ValueError(...)
format_rejected(format) == format \notin valid_formats

export_audio ==
    /\ pc = "idle"
    /\ \E format \in FormatArgs :
         IF format_rejected(format)
         THEN Reject("export_audio", [export_format |-> format],
                     0, format, FALSE, "Invalid export format")
         ELSE Build("export_audio", [export_format |-> format],
                    0, format, FALSE)

transcribe_audio ==
    /\ pc = "idle"
    /\ Build("transcribe_audio", [transcription |-> TRUE], 0, Absent, FALSE)

summarize_audio ==
    /\ pc = "idle"
    /\ Build("summarize_audio", [transcription |-> TRUE, summarize |-> TRUE],
             0, Absent, FALSE)

create_social_content ==
    /\ pc = "idle"
    /\ Build("create_social_content",
             [transcription |-> TRUE, summarize |-> TRUE,
              social_content |-> TRUE],
             0, Absent, FALSE)

\* merge_rejected with the length test off by one.
merge_rejected_off_by_one(files) == ~files.isList \/ Len(files.list) < 1

\* if not isinstance(files, list) or len(files) < 2: raise ValueError(...)
merge_rejected(files) == ~files.isList \/ Len(files.list) < 2

merge_tracks ==
    /\ pc = "idle"
    /\ \E normalize \in BOOLEAN, in \in Inputs([merge |-> TRUE, normalize |-> TRUE]) :
         LET c == Call("merge_tracks", in.files, in.additional_config,
                       0, Absent, normalize)
         IN  IF merge_rejected(in.files)
             THEN RaiseInvalid(c, "merge_tracks requires a list of at least 2 file URLs")
             ELSE process_audio(c, in.files,
                                MergeConfig([merge |-> TRUE, normalize |-> normalize],
                                            OrEmpty(in.additional_config)),
                                in.resp)

\* enhance_audio_comprehensive's default_config, before **options.
default_config ==
    [long_silences |-> TRUE, stutters |-> TRUE, fillers |-> TRUE,
     mouth_sounds |-> TRUE, hesitations |-> TRUE, remove_noise |-> TRUE,
     breath |-> TRUE, normalize |-> TRUE, target_lufs |-> -16,
     sound_studio |-> TRUE, export_format |-> "mp3", transcription |-> FALSE,
     summarize |-> FALSE, social_content |-> FALSE,
     export_timestamps |-> FALSE]

enhance_audio_comprehensive ==
    /\ pc = "idle"
    /\ Build("enhance_audio_comprehensive", default_config, 0, Absent, FALSE)

\* A direct call of process_audio, with or without a config.
call_process_audio ==
    /\ pc = "idle"
    /\ \E files \in FileArgs, resp \in CreateJobResponses,
          config \in {None, EmptyConfig, [custom_key |-> "custom_value"]} :
         process_audio(Call("process_audio", files, config, 0, Absent, FALSE),
                       files, config, resp)

\* ------------------------------------------------------------- API client

\* What POST /upload may answer: a signed URL, an error, or nothing.
UploadResponses ==
    {Response(200, Json(Absent, Absent, Absent, u)) : u \in SignedUrls}
      \cup ErrorResponses \cup NoResponses

\* What the PUT to the signed URL may answer.
PutResponses ==
    {Response(200, NoJson)} \cup ErrorResponses \cup NoResponses

Filenames == {"talk.mp3"}

\* upload_result without upload_put_response.raise_for_status().
upload_result_put_unchecked(filename, readable, resp1, resp2) ==
    LET post == Request("POST", "/upload", filename, <<>>, EmptyConfig)
        signed_url == resp1.json.signedUrl
        put == Request("PUT", "signed_url", signed_url, <<>>, EmptyConfig)
    IN  IF RequestFailed(resp1)
        THEN [sent |-> <<post>>, recv |-> <<resp1>>,
              outcome |-> Raise("Exception", "Failed to upload file",
                                ErrorMsg(resp1, UrlOf(post)))]
        ELSE IF ~readable
        THEN [sent |-> <<post>>, recv |-> <<resp1>>,
              outcome |-> Raise("OSError", "open", NoDetail)]
        ELSE IF resp2.code = 0
        THEN [sent |-> <<post, put>>, recv |-> <<resp1, resp2>>,
              outcome |-> Raise("Exception", "Failed to upload file",
                                ErrorMsg(resp2, UrlOf(put)))]
        ELSE [sent |-> <<post, put>>, recv |-> <<resp1, resp2>>,
              outcome |-> ReturnUrl(signed_url)]

\* upload_file(file_path, filename), given whether file_path can be read and
\* what the service answers to the POST and to the PUT: the requests it
\* issues, the answers it gets, and what it returns or raises.  Only
\* RequestException is caught: the OSError of a file that cannot be opened
\* leaves the method as it is.
upload_result(filename, readable, resp1, resp2) ==
    LET post == Request("POST", "/upload", filename, <<>>, EmptyConfig)
        signed_url == resp1.json.signedUrl
        put == Request("PUT", "signed_url", signed_url, <<>>, EmptyConfig)
    IN  IF RequestFailed(resp1)
        THEN [sent |-> <<post>>, recv |-> <<resp1>>,
              outcome |-> Raise("Exception", "Failed to upload file",
                                ErrorMsg(resp1, UrlOf(post)))]
        ELSE IF ~readable
        THEN [sent |-> <<post>>, recv |-> <<resp1>>,
              outcome |-> Raise("OSError", "open", NoDetail)]
        ELSE IF RequestFailed(resp2)
        THEN [sent |-> <<post, put>>, recv |-> <<resp1, resp2>>,
              outcome |-> Raise("Exception", "Failed to upload file",
                                ErrorMsg(resp2, UrlOf(put)))]
        ELSE [sent |-> <<post, put>>, recv |-> <<resp1, resp2>>,
              outcome |-> ReturnUrl(signed_url)]

upload_file ==
    /\ pc = "idle"
    /\ \E filename \in Filenames, readable \in BOOLEAN,
          resp1 \in UploadResponses, resp2 \in PutResponses :
         LET r == upload_result(filename, readable, resp1, resp2)
         IN  /\ pc' = "returned"
             /\ call' = [NoCall EXCEPT !.op = "upload_file",
                                       !.filename = filename,
                                       !.readable = readable]
             /\ sent' = r.sent
             /\ recv' = r.recv
             /\ outcome' = r.outcome
             /\ UNCHANGED <<poll, driver>>

\* The GET of get_edit_status(edit_id).
StatusQuery(edit_id) == Request("GET", "/edits/{id}", edit_id, <<>>, EmptyConfig)

\* get_edit_status(edit_id): what it returns or raises, given the answer.
get_edit_status(edit_id, resp) ==
    Translate("Failed to get edit status", StatusQuery(edit_id), resp)

\* A direct call of get_edit_status.
call_get_edit_status ==
    /\ pc = "idle"
    /\ \E edit_id \in JobIds :
         \E resp \in StatusResponses(edit_id) :
             /\ pc' = "returned"
             /\ call' = [NoCall EXCEPT !.op = "get_edit_status", !.id = edit_id]
             /\ sent' = <<StatusQuery(edit_id)>>
             /\ recv' = <<resp>>
             /\ outcome' = get_edit_status(edit_id, resp)
             /\ UNCHANGED <<poll, driver>>

delete_edit ==
    /\ pc = "idle"
    /\ \E edit_id \in JobIds :
         \E resp \in DeleteResponses(edit_id) :
             LET delete == Request("DELETE", "/edits/{id}", edit_id, <<>>,
                                   EmptyConfig)
             IN  /\ pc' = "returned"
                 /\ call' = [NoCall EXCEPT !.op = "delete_edit", !.id = edit_id]
                 /\ sent' = <<delete>>
                 /\ recv' = <<resp>>
                 /\ outcome' = Translate("Failed to delete edit", delete, resp)
                 /\ UNCHANGED <<poll, driver>>

\* ------------------------------------------------------- completion poller

\* time.time() * 1000 and poll_interval / 1000: the clock is kept in
\* milliseconds and moves in whole seconds.
MsPerSecond == 1000

Seconds(n) == {k * MsPerSecond : k \in 0..n}

\* The values of wait_for_completion's arguments, the clock when it is called,
\* how long an answer takes and how much longer than asked a sleep may last.
PollIntervals == Seconds(MaxPollSec) \ {0}
MaxWaitTimes == Seconds(MaxWaitSec)
StartTimes == {0, 3 * MsPerSecond}
Latencies == Seconds(MaxLatencySec)
Oversleeps == Seconds(MaxOversleepSec)

\* loop_condition with <= for <.
loop_condition_inclusive(now, start_time, max_wait_time) ==
    now - start_time <= max_wait_time

\* while (time.time() * 1000) - start_time < max_wait_time
loop_condition(now, start_time, max_wait_time) ==
    now - start_time < max_wait_time

\* start_time = time.time() * 1000
wait_for_completion ==
    /\ pc = "idle"
    /\ \E edit_id \in JobIds, poll_interval \in PollIntervals,
          max_wait_time \in MaxWaitTimes, t \in StartTimes :
         /\ call' = [NoCall EXCEPT !.op = "wait_for_completion", !.id = edit_id]
         /\ poll' = [NoPoll EXCEPT !.poll_interval = poll_interval,
                                   !.max_wait_time = max_wait_time,
                                   !.start_time = t, !.now = t]
    /\ pc' = "wait_check"
    /\ sent' = <<>>
    /\ recv' = <<>>
    /\ outcome' = NoOutcome
    /\ UNCHANGED driver

\* The loop condition holds: status = self.get_edit_status(edit_id) sends its
\* GET at the time the condition read the clock.
wait_query ==
    /\ pc = "wait_check"
    /\ loop_condition(poll.now, poll.start_time, poll.max_wait_time)
    /\ pc' = "wait_answer"
    /\ sent' = Append(sent, StatusQuery(call.id))
    /\ poll' = [poll EXCEPT !.queries = @ + 1, !.lastQueryAt = poll.now]
    /\ UNCHANGED <<call, recv, outcome, driver>>

\* The loop condition fails: raise Exception('Edit job timed out').
wait_timeout ==
    /\ pc = "wait_check"
    /\ ~loop_condition(poll.now, poll.start_time, poll.max_wait_time)
    /\ pc' = "returned"
    /\ outcome' = Raise("Exception", "Edit job timed out", NoDetail)
    /\ UNCHANGED <<call, sent, recv, poll, driver>>

\* loop_step without the SUCCESS branch.
loop_step_no_success(edit_id, resp) ==
    IF get_edit_status(edit_id, resp).kind = "raise" THEN "raise"
    ELSE IF resp.json.status = "FAILURE" THEN "failed"
    ELSE "sleep"

\* loop_step without the FAILURE branch.
loop_step_no_failure(edit_id, resp) ==
    IF get_edit_status(edit_id, resp).kind = "raise" THEN "raise"
    ELSE IF resp.json.status = "SUCCESS" THEN "return"
    ELSE "sleep"

\* What the loop body does with get_edit_status's result: "raise" (the
\* exception of get_edit_status), "return", "failed", or "sleep".
\* A loop that would ask again after a status query that failed.
loop_step_retries(edit_id, resp) ==
    IF get_edit_status(edit_id, resp).kind = "raise" THEN "sleep"
    ELSE IF resp.json.status = "SUCCESS" THEN "return"
    ELSE IF resp.json.status = "FAILURE" THEN "failed"
    ELSE "sleep"

loop_step(edit_id, resp) ==
    IF get_edit_status(edit_id, resp).kind = "raise" THEN "raise"
    ELSE IF resp.json.status = "SUCCESS" THEN "return"
    ELSE IF resp.json.status = "FAILURE" THEN "failed"
    ELSE "sleep"

\* The answer to the status query arrives, some time after it was sent.
wait_answer ==
    /\ pc = "wait_answer"
    /\ \E resp \in StatusResponses(call.id), latency \in Latencies :
         LET step == loop_step(call.id, resp)
         IN  /\ recv' = <<resp>>
             /\ poll' = [poll EXCEPT
                            !.now = @ + latency,
                            !.answers = @ + 1,
                            !.nonTerminal = IF step = "sleep" THEN @ + 1 ELSE @,
                            !.sleptAfterAnswer = FALSE]
             /\ pc' = IF step = "sleep" THEN "wait_sleep" ELSE "returned"
             /\ outcome' =
                  CASE step = "raise" -> get_edit_status(call.id, resp)
                    [] step = "return" -> ReturnJson(resp.json)
                    [] step = "failed" -> Raise("Exception", "Edit job failed", NoDetail)
                    [] OTHER -> NoOutcome
    /\ UNCHANGED <<call, sent, driver>>

\* time.sleep(poll_interval / 1000): at least the interval.
wait_sleep ==
    /\ pc = "wait_sleep"
    /\ \E over \in Oversleeps :
         poll' = [poll EXCEPT !.now = @ + poll.poll_interval + over,
                              !.sleeps = @ + 1,
                              !.sleptAfterAnswer = TRUE]
    /\ pc' = "wait_check"
    /\ UNCHANGED <<call, sent, recv, outcome, driver>>

\* The caller goes on to its next call.
NextCall ==
    /\ pc = "returned"
    /\ pc' = "idle"
    /\ call' = NoCall
    /\ sent' = <<>>
    /\ recv' = <<>>
    /\ outcome' = NoOutcome
    /\ poll' = NoPoll
    /\ UNCHANGED driver

Next ==
    \/ remove_silences
    \/ remove_stutters
    \/ remove_fillers
    \/ remove_mouth_sounds
    \/ remove_hesitations
    \/ mute_segments
    \/ denoise_audio
    \/ preserve_music
    \/ reduce_breath_sounds
    \/ normalize_audio
    \/ apply_autoeq
    \/ enhance_with_ai
    \/ set_mute_lufs
    \/ set_target_lufs
    \/ export_audio
    \/ transcribe_audio
    \/ summarize_audio
    \/ create_social_content
    \/ merge_tracks
    \/ enhance_audio_comprehensive
    \/ call_process_audio
    \/ upload_file
    \/ call_get_edit_status
    \/ delete_edit
    \/ wait_for_completion
    \/ wait_query
    \/ wait_timeout
    \/ wait_answer
    \/ wait_sleep
    \/ NextCall

Spec == Init /\ [][Next]_vars

\* ------------------------------------------------------ interactive driver

\* self.function_map: command -> method and its positional parameters after
\* the file reference (a loudness or keep_music argument where the method
\* takes one, then additional_config).
function_map ==
    [c \in {"rm bg", "rm silence", "rm stutter", "rm filler", "rm mouth",
            "rm hesitation", "rm breath", "normalize", "ai enhance",
            "preserve music", "transcribe", "comprehensive"} |->
        CASE c = "rm bg" ->
               [func |-> "denoise_audio", lufs |-> 0, flag |-> FALSE,
                additional_config |-> [normalize |-> TRUE]]
          [] c = "rm silence" ->
               [func |-> "remove_silences", lufs |-> 0, flag |-> FALSE,
                additional_config |-> [export_format |-> "auto"]]
          [] c = "rm stutter" ->
               [func |-> "remove_stutters", lufs |-> 0, flag |-> FALSE,
                additional_config |-> [export_format |-> "auto"]]
          [] c = "rm filler" ->
               [func |-> "remove_fillers", lufs |-> 0, flag |-> FALSE,
                additional_config |-> [export_format |-> "auto"]]
          [] c = "rm mouth" ->
               [func |-> "remove_mouth_sounds", lufs |-> 0, flag |-> FALSE,
                additional_config |-> [export_format |-> "auto"]]
          [] c = "rm hesitation" ->
               [func |-> "remove_hesitations", lufs |-> 0, flag |-> FALSE,
                additional_config |-> [export_format |-> "auto"]]
          [] c = "rm breath" ->
               [func |-> "reduce_breath_sounds", lufs |-> -80, flag |-> FALSE,
                additional_config |-> [export_format |-> "auto"]]
          [] c = "normalize" ->
               [func |-> "normalize_audio", lufs |-> -16, flag |-> FALSE,
                additional_config |-> [export_format |-> "auto"]]
          [] c = "ai enhance" ->
               [func |-> "enhance_with_ai", lufs |-> 0, flag |-> FALSE,
                additional_config |-> [export_format |-> "auto"]]
          [] c = "preserve music" ->
               [func |-> "preserve_music", lufs |-> 0, flag |-> FALSE,
                additional_config |-> [export_format |-> "auto"]]
          [] c = "transcribe" ->
               [func |-> "transcribe_audio", lufs |-> 0, flag |-> FALSE,
                additional_config |-> [export_format |-> "auto"]]
          [] OTHER ->
               [func |-> "enhance_audio_comprehensive", lufs |-> 0,
                flag |-> FALSE,
                additional_config |->
                    [export_format |-> "auto", transcription |-> TRUE]]]

\* The configuration the method of a function_map entry builds: its defaults
\* with the entry's additional_config on top.
method_config(entry) ==
    LET defaults ==
          CASE entry.func = "denoise_audio" ->
                 [remove_noise |-> TRUE, keep_music |-> entry.flag]
            [] entry.func = "remove_silences" -> [long_silences |-> TRUE]
            [] entry.func = "remove_stutters" -> [stutters |-> TRUE]
            [] entry.func = "remove_fillers" -> [fillers |-> TRUE]
            [] entry.func = "remove_mouth_sounds" -> [mouth_sounds |-> TRUE]
            [] entry.func = "remove_hesitations" -> [hesitations |-> TRUE]
            [] entry.func = "reduce_breath_sounds" ->
                 [breath |-> TRUE, mute_lufs |-> entry.lufs]
            [] entry.func = "normalize_audio" ->
                 [normalize |-> TRUE, target_lufs |-> entry.lufs]
            [] entry.func = "enhance_with_ai" -> [sound_studio |-> TRUE]
            [] entry.func = "preserve_music" -> [keep_music |-> TRUE]
            [] entry.func = "transcribe_audio" -> [transcription |-> TRUE]
            [] OTHER -> default_config
    IN  MergeConfig(defaults, OrEmpty(entry.additional_config))

\* The lines typed at the prompt.
TypedLines ==
    {"quit", " Quit ", "exit", "help", "", "  ", "rm bg", "RM BG", "bogus"}

\* input(...).strip().lower()
strip_lower(line) ==
    CASE line = " Quit " -> "quit"
      [] line = "  " -> ""
      [] line = "RM BG" -> "rm bg"
      [] OTHER -> line

\* The files the current directory may hold.
DirectoryFiles == {"talk.wav", "notes.txt"}

\* The part of a file name that glob's "*<ext>" pattern matches against.
Extension(f) ==
    CASE f = "talk.wav" -> ".wav"
      [] OTHER -> ".txt"

supported_extensions == <<".mp3", ".wav", ".m4a", ".flac", ".aac">>

\* find_audio_file from the i-th supported extension on: a file of the first
\* extension that has one, Absent when none has.
RECURSIVE find_from(_, _)
find_from(dir, i) ==
    IF i > Len(supported_extensions) THEN Absent
    ELSE LET files == {f \in dir : Extension(f) = supported_extensions[i]}
         IN  IF files # {} THEN CHOOSE f \in files : TRUE
             ELSE find_from(dir, i + 1)

find_audio_file(dir) == find_from(dir, 1)

\* self.processor.wait_for_completion(processing_job['id'], 5000, 300000)
DriverPollInterval == 5000
DriverMaxWaitTime == 300000

\* result['result']['download_url'] of a finished job.
download_url(json) == <<"download_url", json.id>>

\* What the service may answer to the driver's create-job request: an error,
\* nothing, or a job of its own for each uploaded file.
DriverCreateResponses(signed_url) ==
    {r \in CreateJobResponses :
        r.json.id \in JobIds =>
            r.json.id = (IF signed_url = "signed_1" THEN "job_1" ELSE "job_2")}

\* What the GET of the download URL may answer.
DownloadResponses == {Response(200, NoJson)} \cup ErrorResponses \cup NoResponses

\* The driver at its prompt, no command typed yet.
DriverInit ==
    /\ pc = "prompt"
    /\ call = NoCall
    /\ sent = <<>>
    /\ recv = <<>>
    /\ outcome = NoOutcome
    /\ poll = NoPoll
    /\ driver = NoDriver

\* Nothing is left of the previous command when the next line is read.
FreshCommand ==
    /\ call' = NoCall
    /\ sent' = <<>>
    /\ recv' = <<>>
    /\ outcome' = NoOutcome
    /\ poll' = NoPoll

\* run: command in ['quit', 'exit'] -> print goodbye, break.
d_quit ==
    /\ pc = "prompt"
    /\ \E line \in TypedLines :
         /\ strip_lower(line) \in {"quit", "exit"}
         /\ driver' = [NoDriver EXCEPT !.command = strip_lower(line),
                                       !.printed = "Goodbye",
                                       !.ended = "quit"]
    /\ pc' = "exited"
    /\ FreshCommand

\* run: command == 'help' -> show_help(), continue.
d_help ==
    /\ pc = "prompt"
    /\ \E line \in TypedLines :
         /\ strip_lower(line) = "help"
         /\ driver' = [NoDriver EXCEPT !.command = "help", !.printed = "help"]
    /\ pc' = "prompt"
    /\ FreshCommand

\* run: command == '' -> print, continue.
d_empty ==
    /\ pc = "prompt"
    /\ \E line \in TypedLines :
         /\ strip_lower(line) = ""
         /\ driver' = [NoDriver EXCEPT !.command = "",
                                       !.printed = "Please enter a command"]
    /\ pc' = "prompt"
    /\ FreshCommand

\* run: any other command -> asyncio.run(self.process_audio_file(command)).
d_command ==
    /\ pc = "prompt"
    /\ \E line \in TypedLines :
         /\ strip_lower(line) \notin {"quit", "exit", "help", ""}
         /\ driver' = [NoDriver EXCEPT !.command = strip_lower(line)]
    /\ pc' = "resolve"
    /\ FreshCommand

\* run: input() raises EOFError -> except Exception: print, loop again.
d_eof ==
    /\ pc = "prompt"
    /\ driver' = [NoDriver EXCEPT !.printed = "Unexpected error"]
    /\ pc' = "prompt"
    /\ FreshCommand

\* run: except KeyboardInterrupt -> print goodbye, break.  An interrupt may
\* come at the prompt or while a command is handled; KeyboardInterrupt is no
\* Exception, so process_audio_file's handler lets it through to run.
d_interrupt ==
    /\ pc # "exited"
    /\ pc' = "exited"
    /\ driver' = [driver EXCEPT !.printed = "Goodbye", !.ended = "interrupt"]
    /\ FreshCommand

\* A driver that an error would end.
after_error_fatal == "exited"

\* Where process_audio_file's `except Exception` (or a return after a printed
\* message) leaves the session: back in run's loop, at the prompt.
after_error == "prompt"

\* A step of the command fails: print the message, back to the prompt.
fail(step, msg) ==
    /\ pc' = after_error
    /\ driver' = [driver EXCEPT !.printed = msg, !.failed = step]

\* config = self.function_map.get(command); if not config: print, return.
command_unknown(command) == command \notin DOMAIN function_map

d_resolve ==
    /\ pc = "resolve"
    /\ IF command_unknown(driver.command)
       THEN fail("resolve", "Unknown command")
       ELSE pc' = "find" /\ UNCHANGED driver
    /\ UNCHANGED <<call, sent, recv, outcome, poll>>

\* A driver that would go on without a file.
file_missing_ignored(found) == FALSE

\* if not file_path: print, return.
file_missing(found) == found = Absent

d_find ==
    /\ pc = "find"
    /\ \E dir \in SUBSET DirectoryFiles :
         LET found == find_audio_file(dir)
         IN  IF file_missing(found)
             THEN fail("find", "No supported audio file found")
             ELSE /\ pc' = "upload"
                  /\ driver' = [driver EXCEPT !.filename = found]
    /\ UNCHANGED <<call, sent, recv, outcome, poll>>

\* signed_url = self.processor.upload_file(file_path, filename)
d_upload ==
    /\ pc = "upload"
    /\ \E readable \in BOOLEAN, resp1 \in UploadResponses,
          resp2 \in PutResponses :
         LET r == upload_result(driver.filename, readable, resp1, resp2)
         IN  /\ sent' = r.sent
             /\ recv' = r.recv
             /\ outcome' = r.outcome
             /\ IF r.outcome.kind = "raise"
                THEN fail("upload", "Error processing audio")
                ELSE /\ pc' = "create"
                     /\ driver' = [driver EXCEPT !.signed_url = r.outcome.url]
    /\ UNCHANGED <<call, poll>>

\* The files argument the driver hands to the method: the signed URL.
file_reference(signed_url) ==
    [isList |-> FALSE, str |-> signed_url, list |-> <<>>]

\* processing_job = method(signed_url, *params), then
\* wait_for_completion(processing_job['id'], 5000, 300000) is entered.
d_create ==
    /\ pc = "create"
    /\ \E resp \in DriverCreateResponses(driver.signed_url) :
         LET post == Request("POST", "/edits", Absent,
                             file_array(file_reference(driver.signed_url)),
                             method_config(function_map[driver.command]))
             processing_job == Translate("Failed to process audio", post, resp)
         IN  /\ sent' = Append(sent, post)
             /\ recv' = <<resp>>
             /\ outcome' = processing_job
             /\ IF processing_job.kind = "raise"
                THEN fail("create", "Error processing audio")
                       /\ UNCHANGED <<call, poll>>
                ELSE /\ pc' = "wait_check"
                     /\ driver' = [driver EXCEPT !.job_id = processing_job.json.id]
                     /\ call' = [NoCall EXCEPT !.op = "wait_for_completion",
                                               !.id = processing_job.json.id]
                     /\ poll' = [NoPoll EXCEPT
                                    !.poll_interval = DriverPollInterval,
                                    !.max_wait_time = DriverMaxWaitTime]

\* wait_for_completion has returned or raised: its frame is gone, its result
\* or exception is with process_audio_file.
d_after_wait ==
    /\ pc = "returned"
    /\ IF outcome.kind = "raise"
       THEN fail("poll", "Error processing audio")
       ELSE pc' = "download" /\ UNCHANGED driver
    /\ call' = NoCall
    /\ poll' = NoPoll
    /\ UNCHANGED <<sent, recv, outcome>>

\* self.download_file(download_url, output_path): any failure of the GET or
\* of writing the file is printed there and returns False.
d_download ==
    /\ pc = "download"
    /\ \E resp \in DownloadResponses, writable \in BOOLEAN :
         /\ sent' = Append(sent, Request("GET", "download",
                                         download_url(outcome.json), <<>>,
                                         EmptyConfig))
         /\ recv' = <<resp>>
         /\ IF RequestFailed(resp) \/ ~writable
            THEN fail("download", "Error downloading file")
            ELSE /\ pc' = "prompt"
                 /\ driver' = [driver EXCEPT
                                  !.printed = "Processing completed successfully"]
    /\ UNCHANGED <<call, outcome, poll>>

DriverNext ==
    \/ d_quit
    \/ d_help
    \/ d_empty
    \/ d_command
    \/ d_eof
    \/ d_interrupt
    \/ d_resolve
    \/ d_find
    \/ d_upload
    \/ d_create
    \/ wait_query
    \/ wait_timeout
    \/ wait_answer
    \/ wait_sleep
    \/ d_after_wait
    \/ d_download

SpecDriver == DriverInit /\ [][DriverNext]_vars

\* ------------------------------------------------------------------ claims

\* The error taxonomy, as the code raises it.
InvalidParameter(o) == o.kind = "raise" /\ o.exc = "ValueError"
RemoteError(o) ==
    /\ o.kind = "raise"
    /\ o.exc = "Exception"
    /\ o.msg \in {"Failed to process audio", "Failed to get edit status",
                  "Failed to delete edit"}
UploadError(o) ==
    o.kind = "raise" /\ o.exc = "Exception" /\ o.msg = "Failed to upload file"
JobFailed(o) == o = Raise("Exception", "Edit job failed", NoDetail)
JobTimeout(o) == o = Raise("Exception", "Edit job timed out", NoDetail)

BuilderOps ==
    {"remove_silences", "remove_stutters", "remove_fillers",
     "remove_mouth_sounds", "remove_hesitations", "mute_segments",
     "denoise_audio", "preserve_music", "reduce_breath_sounds",
     "normalize_audio", "apply_autoeq", "enhance_with_ai", "set_mute_lufs",
     "set_target_lufs", "export_audio", "transcribe_audio", "summarize_audio",
     "create_social_content", "merge_tracks", "enhance_audio_comprehensive"}

\* The caller's additional-configuration mapping of the current call.
CallerConfig ==
    IF call.additional_config = None THEN <<>> ELSE call.additional_config

\* The fixed keys of the call's operation with their default values, the
\* operation's own arguments included.
FixedKeys(c) ==
    CASE c.op = "remove_silences" -> [long_silences |-> TRUE]
      [] c.op = "remove_stutters" -> [stutters |-> TRUE]
      [] c.op = "remove_fillers" -> [fillers |-> TRUE]
      [] c.op = "remove_mouth_sounds" -> [mouth_sounds |-> TRUE]
      [] c.op = "remove_hesitations" -> [hesitations |-> TRUE]
      [] c.op = "mute_segments" -> [muted |-> TRUE, mute_lufs |-> c.lufs]
      [] c.op = "denoise_audio" -> [remove_noise |-> TRUE, keep_music |-> c.flag]
      [] c.op = "preserve_music" -> [keep_music |-> TRUE]
      [] c.op = "reduce_breath_sounds" -> [breath |-> TRUE, mute_lufs |-> c.lufs]
      [] c.op = "normalize_audio" -> [normalize |-> TRUE, target_lufs |-> c.lufs]
      [] c.op = "apply_autoeq" -> [autoeq |-> TRUE]
      [] c.op = "enhance_with_ai" -> [sound_studio |-> TRUE]
      [] c.op = "set_mute_lufs" -> [mute_lufs |-> c.lufs]
      [] c.op = "set_target_lufs" -> [target_lufs |-> c.lufs]
      [] c.op = "export_audio" -> [export_format |-> c.fmt]
      [] c.op = "transcribe_audio" -> [transcription |-> TRUE]
      [] c.op = "summarize_audio" -> [transcription |-> TRUE, summarize |-> TRUE]
      [] c.op = "create_social_content" ->
           [transcription |-> TRUE, summarize |-> TRUE, social_content |-> TRUE]
      [] c.op = "merge_tracks" -> [merge |-> TRUE, normalize |-> c.flag]
      [] c.op = "enhance_audio_comprehensive" ->
           [long_silences |-> TRUE, stutters |-> TRUE, fillers |-> TRUE,
            mouth_sounds |-> TRUE, hesitations |-> TRUE, remove_noise |-> TRUE,
            breath |-> TRUE, normalize |-> TRUE, target_lufs |-> -16,
            sound_studio |-> TRUE, export_format |-> "mp3",
            transcription |-> FALSE, summarize |-> FALSE,
            social_content |-> FALSE, export_timestamps |-> FALSE]

\* The call issued exactly one request, the create-job request.
Submitted ==
    /\ Len(sent) = 1
    /\ sent[1].method = "POST"
    /\ sent[1].endpoint = "/edits"

\* C1: whenever a Request Builder operation reaches create-job, the submitted
\* configuration holds every fixed key of the operation, with the caller's
\* value when additional_config has the key and the default otherwise, holds
\* every other caller key with the caller's value, and holds nothing else.
C1_CallerOverridesWin ==
    (pc = "returned" /\ call.op \in BuilderOps /\ sent # <<>>) =>
        /\ Submitted
        /\ DOMAIN sent[1].config = DOMAIN FixedKeys(call) \cup DOMAIN CallerConfig
        /\ \A k \in DOMAIN FixedKeys(call) :
             sent[1].config[k] =
                IF k \in DOMAIN CallerConfig THEN CallerConfig[k]
                ELSE FixedKeys(call)[k]
        /\ \A k \in DOMAIN CallerConfig : sent[1].config[k] = CallerConfig[k]

\* A comprehensive enhancement whose caller overrides one default
\* (target_lufs) and adds a key of its own, as submitted.
C1_Witness ==
    /\ pc = "returned"
    /\ call.op = "enhance_audio_comprehensive"
    /\ DOMAIN CallerConfig = {"target_lufs", "custom_key"}
    /\ CallerConfig["target_lufs"] = 0
    /\ Submitted
    /\ sent[1].config["target_lufs"] = 0
    /\ sent[1].config["custom_key"] = "custom_value"
    /\ sent[1].config["export_format"] = "mp3"

\* C2: set_mute_lufs and set_target_lufs raise InvalidParameter for every
\* loudness value >= 0 and build and submit a configuration for every value
\* below 0.
C2_LufsBoundary ==
    (pc = "returned" /\ call.op \in {"set_mute_lufs", "set_target_lufs"}) =>
        IF call.lufs >= 0
        THEN InvalidParameter(outcome)
        ELSE Submitted

\* C3: once wait_for_completion's latest answer is SUCCESS, after k answers
\* that were neither SUCCESS nor FAILURE, it has returned that answer's job
\* representation, having issued exactly k + 1 status queries; a returned
\* call issues nothing more.
C3_ReturnsOnSuccess ==
    (/\ call.op = "wait_for_completion"
     /\ recv # <<>>
     /\ recv[1].code = 200
     /\ recv[1].json.status = "SUCCESS") =>
        /\ pc = "returned"
        /\ outcome = ReturnJson(recv[1].json)
        /\ poll.queries = poll.nonTerminal + 1
        /\ poll.answers = poll.queries
        /\ Len(sent) = poll.queries
        /\ poll.lastQueryAt - poll.start_time < poll.max_wait_time

\* [PENDING, PENDING, SUCCESS] at a 5-second interval: returned after the
\* third query.
C3_Witness ==
    /\ pc = "returned"
    /\ call.op = "wait_for_completion"
    /\ poll.poll_interval = 5 * MsPerSecond
    /\ poll.nonTerminal = 2
    /\ poll.queries = 3
    /\ outcome.kind = "return"
    /\ outcome.json.status = "SUCCESS"

\* C4: wait_for_completion issues no status query at or after start +
\* max_wait_time, so the n-th query needs (n - 1) intervals to fit before the
\* deadline (at most 2 queries for a 10-second deadline and a 5-second
\* interval); and when every answer was neither SUCCESS nor FAILURE, it ends
\* only by raising JobTimeout.
C4_TimeoutBeforeDeadline ==
    (call.op = "wait_for_completion") =>
        /\ poll.queries > 0 =>
             /\ poll.lastQueryAt < poll.start_time + poll.max_wait_time
             /\ (poll.queries - 1) * poll.poll_interval < poll.max_wait_time
        /\ (poll.max_wait_time = 10 * MsPerSecond
              /\ poll.poll_interval = 5 * MsPerSecond) => poll.queries <= 2
        /\ (pc = "returned" /\ poll.answers = poll.nonTerminal) =>
             /\ JobTimeout(outcome)
             /\ poll.now - poll.start_time >= poll.max_wait_time

\* A job that stays non-terminal, a 10-second deadline and a 5-second
\* interval: JobTimeout after the second query.
C4_Witness ==
    /\ pc = "returned"
    /\ call.op = "wait_for_completion"
    /\ poll.max_wait_time = 10 * MsPerSecond
    /\ poll.poll_interval = 5 * MsPerSecond
    /\ poll.queries = 2
    /\ poll.nonTerminal = 2
    /\ JobTimeout(outcome)

\* C5: once wait_for_completion's latest answer is FAILURE, it has raised
\* JobFailed, without a sleep after that answer and without a further query.
C5_FailsOnFailure ==
    (/\ call.op = "wait_for_completion"
     /\ recv # <<>>
     /\ recv[1].code = 200
     /\ recv[1].json.status = "FAILURE") =>
        /\ pc = "returned"
        /\ JobFailed(outcome)
        /\ ~poll.sleptAfterAnswer
        /\ poll.sleeps = poll.nonTerminal
        /\ poll.queries = poll.answers
        /\ Len(sent) = poll.queries

\* [PENDING, FAILURE]: JobFailed after the second query.
C5_Witness ==
    /\ pc = "returned"
    /\ call.op = "wait_for_completion"
    /\ poll.nonTerminal = 1
    /\ poll.queries = 2
    /\ poll.sleeps = 1
    /\ JobFailed(outcome)

\* The request got no answer or an error answer.
Failing(resp) == resp.code = 0 \/ resp.code >= 400

\* The places of the PUT requests in sent.
Puts == {i \in 1..Len(sent) : sent[i].method = "PUT"}

\* C6: upload_file issues at most one PUT, only after the signed-URL request
\* was answered with a signed URL and to that URL; when both requests succeed
\* it returns exactly that URL; when the PUT fails it raises UploadError and
\* returns no URL.
C6_UploadHandshake ==
    (pc = "returned" /\ call.op = "upload_file") =>
        /\ Cardinality(Puts) <= 1
        /\ \A i \in Puts :
             /\ i = 2
             /\ sent[1].method = "POST" /\ sent[1].endpoint = "/upload"
             /\ ~Failing(recv[1])
             /\ recv[1].json.signedUrl \in SignedUrls
             /\ sent[i].target = recv[1].json.signedUrl
        /\ (Len(recv) = 2 /\ ~Failing(recv[2])) =>
             outcome = ReturnUrl(recv[1].json.signedUrl)
        /\ (Len(recv) = 2 /\ Failing(recv[2])) =>
             UploadError(outcome) /\ outcome.url = Absent
        /\ outcome.kind = "return" => Len(recv) = 2 /\ Puts = {2}

\* Both steps succeeded and the second signed URL came back.
C6_Witness ==
    /\ pc = "returned"
    /\ call.op = "upload_file"
    /\ Len(sent) = 2
    /\ recv[1].json.signedUrl = "signed_2"
    /\ recv[2].code = 200
    /\ outcome = ReturnUrl("signed_2")

\* C7: for create job, get status and delete job, an error answer whose body
\* has a message raises RemoteError carrying that message; without a message,
\* or without an answer, RemoteError carries the generic description.
C7_ServerMessageCarried ==
    (/\ pc = "returned"
     /\ call.op \in BuilderOps \cup {"process_audio", "get_edit_status", "delete_edit"}
     /\ Len(recv) = 1
     /\ Failing(recv[1])) =>
        /\ RemoteError(outcome)
        /\ outcome.detail =
             IF recv[1].json.message # Absent
             THEN Detail(recv[1].json.message, NoUrl)
             ELSE StrE(recv[1], UrlOf(sent[1]))

\* The step of the handshake a failed upload_file call failed in, given what
\* it was answered.
FailedStep(answers) ==
    IF ~Failing(answers[1])
    THEN "transfer-bytes"
    ELSE "request-signed-url"

\* C8: every failure of upload_file, in either step (reading the local file
\* included), is an UploadError, and no failure of the other step has the
\* same content.
C8_UploadErrorWithStep ==
    (pc = "returned" /\ call.op = "upload_file" /\ outcome.kind = "raise") =>
        /\ UploadError(outcome)
        /\ \A f \in Filenames, r \in BOOLEAN,
              r1 \in UploadResponses, r2 \in PutResponses :
             LET other == upload_result(f, r, r1, r2)
             IN  (other.outcome = outcome) =>
                    FailedStep(other.recv) = FailedStep(recv)

\* C9: export_audio raises InvalidParameter for every format outside
\* {auto, mp3, wav, flac, m4a}; for each of the five it submits a
\* configuration whose export_format is that format unless the caller's
\* mapping overrides the key.
C9_ExportFormat ==
    (pc = "returned" /\ call.op = "export_audio") =>
        IF call.fmt \notin {"auto", "mp3", "wav", "flac", "m4a"}
        THEN InvalidParameter(outcome)
        ELSE /\ Submitted
             /\ "export_format" \notin DOMAIN CallerConfig =>
                   sent[1].config["export_format"] = call.fmt

\* export_audio with "flac" and no override, as submitted.
C9_Witness ==
    /\ pc = "returned"
    /\ call.op = "export_audio"
    /\ call.fmt = "flac"
    /\ "export_format" \notin DOMAIN CallerConfig
    /\ Submitted
    /\ sent[1].config["export_format"] = "flac"

\* C10: merge_tracks raises InvalidParameter for a files argument that is not
\* a list or has fewer than two references; for two or more it submits all of
\* them in the given order, with merge set unless the caller's mapping
\* overrides the key.
C10_MergeNeedsTwo ==
    (pc = "returned" /\ call.op = "merge_tracks") =>
        IF ~call.files.isList \/ Len(call.files.list) <= 1
        THEN InvalidParameter(outcome)
        ELSE /\ Submitted
             /\ sent[1].files = call.files.list
             /\ "merge" \notin DOMAIN CallerConfig => sent[1].config["merge"] = TRUE

\* Two different references, submitted in the order given.
C10_Witness ==
    /\ pc = "returned"
    /\ call.op = "merge_tracks"
    /\ call.files.list = <<"url_b", "url_a">>
    /\ Submitted
    /\ sent[1].files = <<"url_b", "url_a">>
    /\ sent[1].config["merge"] = TRUE

\* C11: whenever set_mute_lufs, set_target_lufs, export_audio or merge_tracks
\* raises InvalidParameter, the call has issued no request and got no answer.
C11_InvalidBeforeNetwork ==
    (/\ pc = "returned"
     /\ call.op \in {"set_mute_lufs", "set_target_lufs", "export_audio",
                     "merge_tracks"}
     /\ InvalidParameter(outcome)) =>
        sent = <<>> /\ recv = <<>>

\* merge_tracks given a single reference that is not a list: rejected with
\* nothing sent.
C11_Witness ==
    /\ pc = "returned"
    /\ call.op = "merge_tracks"
    /\ ~call.files.isList
    /\ InvalidParameter(outcome)
    /\ sent = <<>>

\* The requests of the current driver command, by kind.
IsSignedUrlRequest(r) == r.method = "POST" /\ r.endpoint = "/upload"
IsTransfer(r) == r.method = "PUT"
IsCreateJob(r) == r.method = "POST" /\ r.endpoint = "/edits"
IsStatusQuery(r) == r.method = "GET" /\ r.endpoint = "/edits/{id}"
IsDownload(r) == r.method = "GET" /\ r.endpoint = "download"

\* C12: in the interactive driver no error ends the session: a command whose
\* handling failed at any step has printed a message and left the driver at
\* its prompt, and the session has ended only by quit/exit or by an interrupt.
C12_ErrorsNotFatal ==
    /\ pc = "exited" => driver.ended \in {"quit", "interrupt"}
    /\ driver.ended # "no" => pc = "exited"
    /\ driver.ended = "quit" => driver.command \in {"quit", "exit"}
    /\ (driver.failed # "none" /\ driver.ended = "no") =>
          /\ pc = "prompt"
          /\ driver.printed \in {"Unknown command",
                                 "No supported audio file found",
                                 "Error processing audio",
                                 "Error downloading file"}
    /\ driver.failed \in {"none", "resolve", "find", "upload", "create",
                          "poll", "download"}

\* The job timed out after five minutes of polling and the driver is back at
\* its prompt.
C12_Witness ==
    /\ pc = "prompt"
    /\ driver.ended = "no"
    /\ driver.failed = "poll"
    /\ JobTimeout(outcome)
    /\ driver.printed = "Error processing audio"

\* C13: within one driver command the requests come in the order signed-URL
\* request, transfer, create-job, status queries, download, each only after
\* the steps before it succeeded: an unknown command or a missing file sends
\* nothing, create-job follows a successful upload and names the signed URL
\* it returned, status queries name the id create-job returned, and the
\* download follows a SUCCESS status.
C13_StepOrder ==
    /\ driver.failed \in {"resolve", "find"} => sent = <<>>
    /\ sent # <<>> =>
          /\ driver.command \in DOMAIN function_map
          /\ driver.filename # Absent
          /\ IsSignedUrlRequest(sent[1])
          /\ sent[1].target = driver.filename
    /\ \A i \in 1..Len(sent) :
          /\ IsSignedUrlRequest(sent[i]) => i = 1
          /\ IsTransfer(sent[i]) => i = 2
          /\ IsCreateJob(sent[i]) =>
                /\ i = 3
                /\ IsTransfer(sent[2])
                /\ driver.signed_url \in SignedUrls
                /\ sent[2].target = driver.signed_url
                /\ sent[i].files = <<driver.signed_url>>
          /\ IsStatusQuery(sent[i]) =>
                /\ i >= 4
                /\ IsCreateJob(sent[3])
                /\ driver.job_id \in JobIds
                /\ sent[i].target = driver.job_id
          /\ IsDownload(sent[i]) =>
                /\ i = Len(sent)
                /\ i >= 5
                /\ IsStatusQuery(sent[i - 1])
                /\ outcome.kind = "return"
                /\ outcome.json.status = "SUCCESS"
                /\ outcome.json.id = driver.job_id
                /\ sent[i].target = download_url(outcome.json)
    /\ (pc = "create") =>
          Len(sent) = 2 /\ Len(recv) = 2 /\ ~Failing(recv[1]) /\ ~Failing(recv[2])
              /\ driver.signed_url = recv[1].json.signedUrl
    /\ (pc = "wait_check" /\ poll.queries = 0 /\ driver.command # Absent) =>
          /\ ~Failing(recv[1])
          /\ call.id = recv[1].json.id
          /\ driver.job_id = call.id

\* A whole command went through: the second signed URL, the second job id,
\* two status queries and the download.
C13_Witness ==
    /\ pc = "prompt"
    /\ driver.printed = "Processing completed successfully"
    /\ driver.signed_url = "signed_2"
    /\ driver.job_id = "job_2"
    /\ Len(sent) = 6
    /\ IsDownload(sent[6])

\* The places in sent of the requests that are not status queries.
NotStatusQueries == {i \in 1..Len(sent) : ~IsStatusQuery(sent[i])}

\* C14: nothing is retried: within one driver command the signed-URL request,
\* the transfer, the create-job request and the download are each issued at
\* most once, and a status query that fails ends the poller at once with that
\* failure, every query answered and none following it.
C14_NoRetry ==
    /\ \A i, j \in NotStatusQueries :
          i # j => <<sent[i].method, sent[i].endpoint>> #
                   <<sent[j].method, sent[j].endpoint>>
    /\ (/\ call.op = "wait_for_completion"
        /\ poll.answers > 0
        /\ Failing(recv[1])) =>
          /\ pc = "returned"
          /\ RemoteError(outcome)
          /\ poll.answers = poll.queries
          /\ Len(sent) - Cardinality(NotStatusQueries) = poll.queries
    /\ driver.failed = "poll" =>
          \A i \in NotStatusQueries : ~IsDownload(sent[i])
    /\ driver.failed \in {"upload", "create"} =>
          Cardinality(NotStatusQueries) = Len(sent)

\* The driver's second status query failed and the poller ended there.
C14_Witness ==
    /\ pc = "returned"
    /\ call.op = "wait_for_completion"
    /\ driver.command = "rm bg"
    /\ poll.queries = 2
    /\ poll.answers = 2
    /\ Failing(recv[1])
    /\ RemoteError(outcome)

\* The operations that take a loudness threshold argument.
LufsOps ==
    {"mute_segments", "reduce_breath_sounds", "normalize_audio",
     "set_mute_lufs", "set_target_lufs"}

\* C15: in every operation that takes a mute or target loudness threshold, a
\* threshold >= 0 raises InvalidParameter, and nothing built from it is
\* submitted.
C15_ThresholdsNegative ==
    (pc = "returned" /\ call.op \in LufsOps /\ call.lufs >= 0) =>
        InvalidParameter(outcome) /\ sent = <<>>

====
